---- MODULE Spec2Model ----
(***************************************************************************)
(* A model of todo_tracker (src/main.go).                                  *)
(*                                                                         *)
(* Three goroutines share one checklist file:                              *)
(*   - the detector (trackModifications, lines 66-82) polls the file's     *)
(*     modification time and publishes on the unbuffered channel C;        *)
(*   - the processor (main, lines 25-31, calling progress) receives from   *)
(*     C, parses the file, computes the percentage and rewrites the file   *)
(*     when the percentage differs from progressValue;                     *)
(*   - main (line 33) waits on errorChan and terminates the process.       *)
(*                                                                         *)
(* The environment edits the file in place, removes it, or creates it;     *)
(* every write gives the file a modification time it did not have before.  *)
(* A step of the program is one system call with the computation that      *)
(* follows it: a stat, a read of the file into the buffer of the reader,   *)
(* the truncating open, one write of PrintTodos, the print of log.Fatal,   *)
(* the exit.  The environment and the other goroutines step between them.  *)
(*                                                                         *)
(* A text is a sequence of one-character strings.                          *)
(*                                                                         *)
(* An action binds the result of a function of the program with            *)
(* \E r \in {f(x)}, so that TLC computes the result once.                  *)
(***************************************************************************)
EXTENDS Integers, Sequences, FiniteSets, TLC

(***************************************************************************)
(* Bounds of the model.                                                    *)
(***************************************************************************)
\* lines of a checklist text drawn as input of the parser
MaxLines == 3
\* leading spaces of a generated line
MaxIndent == 2
\* external changes of the file (edits, removals, creations) in one
\* behaviour
MaxEdits == 1

(***************************************************************************)
(* Characters and strings.                                                 *)
(***************************************************************************)
SP == " "
NL == "\n"
CR == "\r"

\* TodoStatus (iota)
Done == 0
Undone == 1

\* func (ts TodoStatus) String() string
TodoStatusString(ts) ==
    CASE ts = Done   -> <<"-", " ", "[", "X", "]">>
      [] ts = Undone -> <<"-", " ", "[", " ", "]">>
      [] OTHER       -> <<>>

\* func (ts *TodoStatus) FromString(s string); the default case panics and
\* is never reached from parseLine, which tests the token first.
FromString(s) ==
    CASE s = TodoStatusString(Done)   -> Done
      [] s = TodoStatusString(Undone) -> Undone

(***************************************************************************)
(* parseLine: scan the line left to right.  The test of the token is the   *)
(* first statement of the loop body, so it is made only when a further     *)
(* character follows the token.                                            *)
(***************************************************************************)
RECURSIVE parseLineLoop(_, _, _, _)
parseLineLoop(line, i, token, spaceCounter) ==
    IF i > Len(line)
    THEN [st |-> -1, content |-> <<>>, isSubTodo |-> FALSE]
    ELSE IF token = TodoStatusString(Done) \/ token = TodoStatusString(Undone)
    THEN [st        |-> FromString(token),
          content   |-> SubSeq(line, i, Len(line)),
          isSubTodo |-> spaceCounter # 0]
    ELSE IF line[i] = SP /\ token = <<>>
    THEN parseLineLoop(line, i + 1, token, spaceCounter + 1)
    ELSE parseLineLoop(line, i + 1, Append(token, line[i]), spaceCounter)

parseLine(line) == parseLineLoop(line, 1, <<>>, 0)

(***************************************************************************)
(* bufio.Reader.ReadLine.  bufio.NewReader gives the reader a buffer of    *)
(* defaultBufSize bytes.  ReadLine returns the bytes up to the next NL     *)
(* without their terminator (NL, or CR NL) when the NL comes within the    *)
(* buffer; when the buffer is full and holds no NL it returns the buffer   *)
(* with isPrefix set, keeping back a CR that is the last byte of the       *)
(* buffer.  parseTodoFile drops isPrefix (line 221), so each part of a     *)
(* long line is a line of its own.  At the end of the input the bytes that *)
(* follow the last NL are returned as they are, when there are any.        *)
(***************************************************************************)
defaultBufSize == 4096

Min(a, b) == IF a < b THEN a ELSE b

\* the least element of a non-empty set of positions
Least(S) == CHOOSE k \in S : \A m \in S : k <= m

\* the position of the first NL of text[i..j], 0 when there is none
FirstNL(text, i, j) ==
    CHOOSE p \in {IF nls = {} THEN 0 ELSE Least(nls) :
                     nls \in {{k \in i..j : text[k] = NL}}} : TRUE

\* the lines that calls of ReadLine return from the bytes text[i..], and
\* the bytes not yet handed out then: the calls end when n lines have been
\* returned in all, or when ReadLine needs bytes that text does not hold;
\* full is the position of the last byte the buffer has room for
RECURSIVE ScanLinesUpTo(_, _, _, _)
ScanLinesUpTo(text, i, lines, n) ==
    IF Len(lines) >= n
    THEN [lines |-> lines, rest |-> SubSeq(text, i, Len(text))]
    ELSE CHOOSE s \in
        {IF k # 0
         THEN LET drop == IF k > i /\ text[k - 1] = CR THEN 2 ELSE 1
              IN  ScanLinesUpTo(text, k + 1,
                                Append(lines, SubSeq(text, i, k - drop)), n)
         ELSE IF Len(text) >= full
         THEN IF text[full] = CR
              THEN ScanLinesUpTo(text, full,
                                 Append(lines, SubSeq(text, i, full - 1)), n)
              ELSE ScanLinesUpTo(text, full + 1,
                                 Append(lines, SubSeq(text, i, full)), n)
         ELSE [lines |-> lines, rest |-> SubSeq(text, i, Len(text))] :
            full \in {i + defaultBufSize - 1},
            k \in {FirstNL(text, i,
                           Min(Len(text), i + defaultBufSize - 1))}} : TRUE

\* the lines ReadLine returns from the bytes text[i..] before it needs
\* bytes that text does not hold, and the bytes left in the buffer then:
\* text has fewer lines than bytes
ScanLines(text, i, lines) ==
    CHOOSE s \in {ScanLinesUpTo(text, i, lines, n) :
                     n \in {Len(lines) + Len(text) + 1}} : TRUE

\* the lines ReadLine returns from a text up to io.EOF
ReadLines(text) ==
    CHOOSE ls \in {IF s.rest = <<>> THEN s.lines ELSE Append(s.lines, s.rest) :
                      s \in {ScanLines(text, 1, <<>>)}} : TRUE

(***************************************************************************)
(* Errors.  NoError is Go's nil error.                                     *)
(*   MalformedLine  : "Failed to parse TODO file [LINE %d]"                *)
(*   OrphanSubEntry : "Found sub todo without it parent [LINE %d]"         *)
(*   OpenFailure    : the error of os.Open                                 *)
(*   ReadFailure    : an error of ReadLine that is not io.EOF              *)
(***************************************************************************)
NoError == [kind |-> "nil", line |-> 0]
Error(k, n) == [kind |-> k, line |-> n]

(***************************************************************************)
(* type Todo.  The pointer sub is a sequence of length 0 (nil) or 1.       *)
(***************************************************************************)
Todo(done, content) ==
    [IsDone |-> done, Content |-> content, IsParent |-> FALSE, sub |-> <<>>]

\* lines 252-256: the last top-level entry becomes a parent and its sub is
\* replaced by a new entry
AttachSub(todos, done, content) ==
    [todos EXCEPT ![Len(todos)] =
        [@ EXCEPT !.IsParent = TRUE, !.sub = <<Todo(done, content)>>]]

(***************************************************************************)
(* parseTodoFile: the loop of lines 220-267 over the lines of the text.    *)
(***************************************************************************)
RECURSIVE parseTodoLoop(_, _, _)
parseTodoLoop(lines, lineNumber, todos) ==
    IF lineNumber >= Len(lines)
    THEN [todos |-> todos, err |-> NoError]
    ELSE LET line == lines[lineNumber + 1]
             p    == parseLine(line)
             done == (p.st = Done)
         IN  IF line = <<>>
             THEN parseTodoLoop(lines, lineNumber + 1, todos)
             ELSE IF p.st < 0
             THEN [todos |-> <<>>,
                   err   |-> Error("MalformedLine", lineNumber + 1)]
             ELSE IF p.isSubTodo
             THEN IF Len(todos) = 0
                  THEN [todos |-> <<>>,
                        err   |-> Error("OrphanSubEntry", lineNumber + 1)]
                  ELSE parseTodoLoop(lines, lineNumber + 1,
                                     AttachSub(todos, done, p.content))
             ELSE parseTodoLoop(lines, lineNumber + 1,
                                Append(todos, Todo(done, p.content)))

\* the lines are read first and bound to their value
parseTodoFile(text) ==
    CHOOSE r \in {parseTodoLoop(lines, 0, <<>>) :
                     lines \in {ReadLines(text)}} : TRUE

(***************************************************************************)
(* Progress calculation.                                                   *)
(***************************************************************************)
\* func (t *Todo) UpdateStatus(st TodoStatus)
UpdateStatus(t, st) == [t EXCEPT !.IsDone = (st = Done)]

\* CalcTodos if it counted an entry as done without the call of
\* UpdateStatus
RECURSIVE CalcTodosNoUpdate(_, _)
CalcTodosNoUpdate(current, restDone) ==
    IF current = <<>>
    THEN [cur |-> <<>>, sum |-> 0, total |-> 0]
    ELSE LET c    == current[1]
             hit  == c.IsDone \/ restDone
             rest == IF hit /\ c.IsParent THEN TRUE ELSE restDone
             r    == CalcTodosNoUpdate(c.sub, rest)
         IN  [cur   |-> <<[c EXCEPT !.sub = r.cur]>>,
              sum   |-> (IF hit THEN 1 ELSE 0) + r.sum,
              total |-> 1 + r.total]

\* CalcTodos if *total++ stood in an else branch of the test of line 156
RECURSIVE CalcTodosTotalInElse(_, _)
CalcTodosTotalInElse(current, restDone) ==
    IF current = <<>>
    THEN [cur |-> <<>>, sum |-> 0, total |-> 0]
    ELSE LET c    == current[1]
             hit  == c.IsDone \/ restDone
             rest == IF hit /\ c.IsParent THEN TRUE ELSE restDone
             upd  == IF hit THEN UpdateStatus(c, Done) ELSE c
             r    == CalcTodosTotalInElse(c.sub, rest)
         IN  [cur   |-> <<[upd EXCEPT !.sub = r.cur]>>,
              sum   |-> (IF hit THEN 1 ELSE 0) + r.sum,
              total |-> (IF hit THEN 0 ELSE 1) + r.total]

\* func (t Todo) CalcTodos(current *Todo, sum, total *int, restDone bool):
\* the entry current points to after the walk, and what the walk added to
\* *sum and *total.
RECURSIVE CalcTodos(_, _)
CalcTodos(current, restDone) ==
    IF current = <<>>
    THEN [cur |-> <<>>, sum |-> 0, total |-> 0]
    ELSE LET c    == current[1]
             hit  == c.IsDone \/ restDone
             rest == IF hit /\ c.IsParent THEN TRUE ELSE restDone
             upd  == IF hit THEN UpdateStatus(c, Done) ELSE c
             r    == CalcTodos(c.sub, rest)
         IN  [cur   |-> <<[upd EXCEPT !.sub = r.cur]>>,
              sum   |-> (IF hit THEN 1 ELSE 0) + r.sum,
              total |-> 1 + r.total]

\* calculate if restDone were kept from one top-level entry to the next
RECURSIVE calculateKeepRest(_, _, _, _)
calculateKeepRest(todos, i, sum, total) ==
    IF i > Len(todos)
    THEN [todos |-> todos, sum |-> sum, total |-> total]
    ELSE LET r == CalcTodos(<<todos[i]>>, i > 1 /\ todos[i - 1].IsDone)
         IN  calculateKeepRest([todos EXCEPT ![i].sub = r.cur[1].sub],
                               i + 1, sum + r.sum, total + r.total)

\* progress, lines 94-97.  The loop variable t is a copy of the slice
\* element and current is &t: an update of the top-level entry is made on
\* the copy, an update of the sub-entry is made through the shared pointer
\* and stays in the slice.
RECURSIVE calculate(_, _, _, _)
calculate(todos, i, sum, total) ==
    IF i > Len(todos)
    THEN [todos |-> todos, sum |-> sum, total |-> total]
    ELSE LET r == CalcTodos(<<todos[i]>>, FALSE)
         IN  calculate([todos EXCEPT ![i].sub = r.cur[1].sub],
                       i + 1, sum + r.sum, total + r.total)

(***************************************************************************)
(* float64(sum) / float64(total) * 100.  The quotient is correctly         *)
(* rounded, so two pairs give the same float64 exactly when they are the   *)
(* same fraction (the counts of the model are far too small for two        *)
(* fractions to round together); 0/0 is NaN.  A percentage is the reduced  *)
(* fraction, NaN is <<0, 0>>.                                              *)
(***************************************************************************)
RECURSIVE Gcd(_, _)
Gcd(a, b) == IF b = 0 THEN a ELSE Gcd(b, a % b)

NaN == <<0, 0>>

Percentage(sum, total) ==
    IF total = 0 THEN NaN
    ELSE <<sum \div Gcd(sum, total), total \div Gcd(sum, total)>>

\* the float64 comparison a != b of line 102: NaN differs from everything
FloatNotEqual(a, b) == a = NaN \/ b = NaN \/ a # b

(***************************************************************************)
(* Serialisation.  fd is an *os.File, which does not buffer: every call of *)
(* fmt.Fprintf is one write to the file.                                   *)
(***************************************************************************)
RECURSIVE Spaces(_)
Spaces(n) == IF n <= 0 THEN <<>> ELSE <<SP>> \o Spaces(n - 1)

\* func recursiveTodoPrint(seek io.Writer, todo *Todo, level int): the
\* writes it makes, one for an entry (line 136)
RECURSIVE recursiveTodoPrint(_, _)
recursiveTodoPrint(todo, level) ==
    IF todo = <<>>
    THEN <<>>
    ELSE LET st == IF todo[1].IsDone THEN TodoStatusString(Done)
                                     ELSE TodoStatusString(Undone)
         IN  <<Spaces(level) \o st \o todo[1].Content \o <<NL>>>>
                 \o recursiveTodoPrint(todo[1].sub, level + 2)

\* func PrintTodos(seek io.Writer, todos []Todo): the writes it makes, for
\* each top-level entry those of recursiveTodoPrint and one of NL (line
\* 116)
RECURSIVE PrintTodosFrom(_, _)
PrintTodosFrom(todos, i) ==
    IF i > Len(todos)
    THEN <<>>
    ELSE recursiveTodoPrint(<<todos[i]>>, 0) \o <<<<NL>>>>
             \o PrintTodosFrom(todos, i + 1)

\* the bytes of the first n writes of a sequence of writes
RECURSIVE Concat(_, _)
Concat(writes, n) ==
    IF n = 0 THEN <<>> ELSE Concat(writes, n - 1) \o writes[n]

\* the bytes PrintTodos writes
PrintTodos(todos) ==
    CHOOSE w \in {Concat(ws, Len(ws)) : ws \in {PrintTodosFrom(todos, 1)}} :
        TRUE

\* the byte of a hole in a file: a write beyond the end of the file fills
\* the gap with zero bytes
NUL == "\\0"

RECURSIVE Zeros(_)
Zeros(n) == IF n <= 0 THEN <<>> ELSE <<NUL>> \o Zeros(n - 1)

\* write(2) of data at the offset off of a file
WriteAt(text, off, data) ==
    IF off >= Len(text)
    THEN text \o Zeros(off - Len(text)) \o data
    ELSE SubSeq(text, 1, off) \o data
             \o SubSeq(text, off + Len(data) + 1, Len(text))

\* read(2) of at most n bytes at the offset off of a file
ReadAt(text, off, n) == SubSeq(text, off + 1, Min(Len(text), off + n))

(***************************************************************************)
(* Checklist texts.                                                        *)
(***************************************************************************)
Line(indent, marker, rest) == Spaces(indent) \o marker \o rest \o <<NL>>

\* remainders of a line after the marker: none, and one that starts and
\* ends with a space
Rests == {<<>>, <<SP, "a", SP>>}

\* lines that begin with one of the two markers, lines that do not, a blank
\* line, a line of one space, and a line that ends with CR CR NL
InputLines ==
    {Line(n, TodoStatusString(st), r) :
        n \in 0..MaxIndent, st \in {Done, Undone}, r \in Rests}
    \cup {Line(0, <<"-", " ", "[", "x", "]">>, <<"a">>),
          Line(1, <<"-", " ", "[", "-", "]">>, <<"a">>),
          <<NL>>, <<SP, NL>>,
          Line(0, TodoStatusString(Undone), <<"a", CR, CR>>)}

\* the texts of at most n lines
RECURSIVE TextsOf(_)
TextsOf(n) ==
    IF n = 0 THEN {<<>>}
    ELSE LET shorter == TextsOf(n - 1)
         IN  shorter \cup {t \o l : t \in shorter, l \in InputLines}

\* n times the character c
Repeat(c, n) == [i \in 1..n |-> c]

\* texts with a line that the buffer of the reader does not hold: an entry
\* of one byte more than the buffer without its NL, and a sub-entry of
\* exactly the size of the buffer, which two spaces of indentation make
\* longer than the buffer
LongTexts ==
    {Line(0, TodoStatusString(Done), Repeat("a", defaultBufSize - 4)),
     Line(0, TodoStatusString(Undone), <<"a">>)
         \o Line(1, TodoStatusString(Done), Repeat("a", defaultBufSize - 6))}

\* a text without its last byte: a text whose last line has no NL
Unterminated(text) == SubSeq(text, 1, Len(text) - 1)

\* the texts of fewer than MaxLines lines whose last line has no NL
UnterminatedTexts ==
    {Unterminated(t) : t \in TextsOf(MaxLines - 1) \ {<<>>}}

\* the texts an external editor saves
EditTexts ==
    { \* a done parent with an undone sub, then an undone entry
      Line(0, TodoStatusString(Done), <<"a">>)
          \o Line(2, TodoStatusString(Undone), <<"b">>)
          \o Line(0, TodoStatusString(Undone), <<"c">>),
      \* nothing done, not in canonical layout, the last line without NL
      Unterminated(Line(0, TodoStatusString(Undone), <<"a">>)),
      \* no entry at all
      <<NL>>,
      \* a malformed line
      Line(0, <<"-", " ", "[", "x", "]">>, <<"a">>) }

(***************************************************************************)
(* State.                                                                  *)
(***************************************************************************)
VARIABLES
    file,           \* content of the checklist file
    exists,         \* the path names a file
    readable,       \* a read of the file succeeds (it is no directory)
    modTime,        \* modification time of the file
    edits,          \* external changes made so far
    dpc,            \* detector: position in the loop of lines 67-81
    observed,       \* detector: fileInfo.ModTime() of the last stat
    lastModTime,    \* Tracker.lastModTime
    ppc,            \* processor: position in the loop of lines 26-30
    input,          \* parseTodoFile: the bytes read from fd so far
    consumed,       \* parseTodoFile: the bytes of input that ReadLine has
                    \* handed out as lines; the rest is in the buffer
    linesRead,      \* parseTodoFile: the lines ReadLine has handed out
    detached,       \* parseTodoFile, progress: <<text>> when fd is open on
                    \* a removed file of that text, <<>> otherwise
    todos,          \* progress: the tree
    sum,            \* progress: sum
    total,          \* progress: total
    out,            \* progress: out
    fdOpen,         \* progress: fd is open on the file the path names
    written,        \* PrintTodos: the writes made so far
    progressValue,  \* the global of line 12
    mpc,            \* main: position in line 33-35
    halted,         \* the process has exited
    fatalErr,       \* progress: err, the error of parseTodoFile
    pending,        \* history: publishes started minus events received
    prevOut,        \* history: <<out>> of the previous call of progress
    unread          \* history: the file was modified since it was last
                    \* opened for reading

vars == <<file, exists, readable, modTime, edits, dpc, observed, lastModTime,
          ppc, input, consumed, linesRead, detached, todos, sum, total, out,
          fdOpen, written, progressValue, mpc, halted, fatalErr, pending,
          prevOut, unread>>

fileVars == <<file, exists, readable, modTime, edits>>
detVars  == <<dpc, observed, lastModTime>>
readerVars == <<input, consumed, linesRead>>
procVars == <<ppc, readerVars, detached, todos, sum, total, out, fdOpen,
              written, progressValue, fatalErr>>
mainVars == <<mpc>>

(***************************************************************************)
(* Modification times.  The program only tests two times with Equal        *)
(* (line 74), so a time is modelled by its identity: 0 is the zero         *)
(* time.Time, and a write gives the file a time that differs from every    *)
(* time the program still holds, as a clock that advances does.            *)
(***************************************************************************)
ZeroTime == 0

NewModTime ==
    LET held == {modTime, lastModTime, observed}
    IN  CHOOSE t \in 1..4 : t \notin held /\ \A u \in 1..(t - 1) : u \in held

\* The path given to the program names a file, a directory, or nothing;
\* in the last case file is the text the file is created with.
Init ==
    /\ file \in EditTexts
    /\ exists \in BOOLEAN
    /\ readable \in BOOLEAN
    /\ modTime = 1
    /\ edits = 0
    /\ dpc = "stat"
    /\ observed = ZeroTime
    /\ lastModTime = ZeroTime
    /\ ppc = "recv"
    /\ input = <<>>
    /\ consumed = 0
    /\ linesRead = <<>>
    /\ detached = <<>>
    /\ todos = <<>>
    /\ sum = 0
    /\ total = 0
    /\ out = <<0, 1>>
    /\ fdOpen = FALSE
    /\ written = 0
    /\ progressValue = <<0, 1>>
    /\ mpc = "recv"
    /\ halted = FALSE
    /\ fatalErr = NoError
    /\ pending = 0
    /\ prevOut = <<>>
    /\ unread = TRUE

(***************************************************************************)
(* The environment.                                                        *)
(***************************************************************************)
\* an editor saves the text t in place
ExternalEdit(t) ==
    /\ ~halted
    /\ exists
    /\ edits < MaxEdits
    /\ file' = t
    /\ modTime' = NewModTime
    /\ edits' = edits + 1
    /\ unread' = TRUE
    /\ UNCHANGED <<exists, readable, detVars, procVars, mainVars, halted,
                   pending, prevOut>>

\* the file is removed; an fd the processor holds then refers to a file
\* without a name: what is read from it is the text the file had, and what
\* is written to it is seen by nobody
ExternalRemove ==
    /\ ~halted
    /\ exists
    /\ edits < MaxEdits
    /\ exists' = FALSE
    /\ edits' = edits + 1
    /\ fdOpen' = FALSE
    /\ detached' = IF (ppc = "read" /\ detached = <<>>) \/ fdOpen
                   THEN <<file>>
                   ELSE detached
    /\ UNCHANGED <<file, readable, modTime, detVars, ppc, readerVars, todos,
                   sum,
                   total, out, written, progressValue, fatalErr, mainVars,
                   halted, pending, prevOut, unread>>

\* a file is created at the path, with the text the removed file had
ExternalCreate ==
    /\ ~halted
    /\ ~exists
    /\ edits < MaxEdits
    /\ exists' = TRUE
    /\ file' = file
    /\ modTime' = NewModTime
    /\ edits' = edits + 1
    /\ unread' = TRUE
    /\ UNCHANGED <<readable, detVars, procVars, mainVars, halted, pending,
                   prevOut>>

(***************************************************************************)
(* The detector: the goroutine of trackModifications.                      *)
(***************************************************************************)
\* DetectorStat if line 74 tested ModTime().After(t.lastModTime)
DetectorStatAfter ==
    /\ ~halted
    /\ dpc = "stat"
    /\ IF ~exists
       THEN /\ dpc' = "sendErr"
            /\ UNCHANGED <<observed, pending>>
       ELSE /\ observed' = modTime
            /\ IF modTime > lastModTime
               THEN /\ dpc' = "send"
                    /\ pending' = pending + 1
               ELSE /\ dpc' = "sleep"
                    /\ UNCHANGED pending
    /\ UNCHANGED <<fileVars, lastModTime, procVars, mainVars, halted,
                   prevOut, unread>>

\* lines 68-74: os.Stat, then the choice of what to do with its result
DetectorStat ==
    /\ ~halted
    /\ dpc = "stat"
    /\ IF ~exists
       THEN /\ dpc' = "sendErr"
            /\ UNCHANGED <<observed, pending>>
       ELSE /\ observed' = modTime
            /\ IF modTime # lastModTime
               THEN /\ dpc' = "send"
                    /\ pending' = pending + 1
               ELSE /\ dpc' = "sleep"
                    /\ UNCHANGED pending
    /\ UNCHANGED <<fileVars, lastModTime, procVars, mainVars, halted,
                   prevOut, unread>>

\* Publish if the send did not wait for the receiver
PublishWithoutReceiver ==
    /\ ~halted
    /\ dpc = "send"
    /\ dpc' = "update"
    /\ UNCHANGED <<fileVars, observed, lastModTime, procVars, mainVars,
                   halted, pending, prevOut, unread>>

\* line 75 with line 27: C is unbuffered, the send completes when the
\* processor receives
Publish ==
    /\ ~halted
    /\ dpc = "send"
    /\ ppc = "recv"
    /\ dpc' = "update"
    /\ ppc' = "parse"
    /\ pending' = pending - 1
    /\ UNCHANGED <<fileVars, observed, lastModTime, readerVars, detached,
                   todos,
                   sum, total, out, fdOpen, written, progressValue, fatalErr,
                   mainVars, halted, prevOut, unread>>

\* DetectorUpdate if it took the time from a new look at the file
DetectorUpdateFromFile ==
    /\ ~halted
    /\ dpc = "update"
    /\ lastModTime' = modTime
    /\ dpc' = "sleep"
    /\ UNCHANGED <<fileVars, observed, procVars, mainVars, halted, pending,
                   prevOut, unread>>

\* line 76
DetectorUpdate ==
    /\ ~halted
    /\ dpc = "update"
    /\ lastModTime' = observed
    /\ dpc' = "sleep"
    /\ UNCHANGED <<fileVars, observed, procVars, mainVars, halted, pending,
                   prevOut, unread>>

\* lines 79-80: the timer fires and is armed again
DetectorTick ==
    /\ ~halted
    /\ dpc = "sleep"
    /\ dpc' = "stat"
    /\ UNCHANGED <<fileVars, observed, lastModTime, procVars, mainVars,
                   halted, pending, prevOut, unread>>

\* lines 70-71 with line 57: errorChan is unbuffered too; the detector
\* continues with the next stat, without waiting for the timer
PublishError ==
    /\ ~halted
    /\ dpc = "sendErr"
    /\ mpc = "recv"
    /\ dpc' = "stat"
    /\ mpc' = "fatal"
    /\ UNCHANGED <<fileVars, observed, lastModTime, procVars, halted,
                   pending, prevOut, unread>>

(***************************************************************************)
(* main.  log.Fatal prints the error and then calls os.Exit: the other     *)
(* goroutines run until the exit.                                          *)
(***************************************************************************)
\* line 34: log.Fatal(err) prints the error of the stat
MainLog ==
    /\ ~halted
    /\ mpc = "fatal"
    /\ mpc' = "logged"
    /\ UNCHANGED <<fileVars, detVars, procVars, halted, pending, prevOut,
                   unread>>

\* line 34: os.Exit in log.Fatal ends the process
MainExit ==
    /\ ~halted
    /\ mpc = "logged"
    /\ mpc' = "exited"
    /\ halted' = TRUE
    /\ UNCHANGED <<fileVars, detVars, procVars, pending, prevOut, unread>>

(***************************************************************************)
(* The processor: the goroutine of lines 25-31 and progress.               *)
(***************************************************************************)
\* lines 209-215: os.Open; its error is returned to progress
ProcessorParse ==
    /\ ~halted
    /\ ppc = "parse"
    /\ IF exists
       THEN /\ ppc' = "read"
            /\ unread' = FALSE
            /\ UNCHANGED fatalErr
       ELSE /\ ppc' = "fatal"
            /\ fatalErr' = Error("OpenFailure", 0)
            /\ UNCHANGED unread
    /\ input' = <<>>
    /\ consumed' = 0
    /\ linesRead' = <<>>
    /\ UNCHANGED <<fileVars, detVars, detached, todos, sum, total, out,
                   fdOpen, written, progressValue, mainVars, halted, pending,
                   prevOut>>

\* the file fd is open on
FdText == IF detached = <<>> THEN file ELSE detached[1]

\* the room the buffer of the reader has left: its size less the bytes it
\* holds, those of the line that is not complete yet
BufferRoom == defaultBufSize - (Len(input) - consumed)

\* The calls of ReadLine after a read of fd that gave data, up to the call
\* that has to read fd again: the lines handed out, the bytes of them, and
\* whether the last call returned io.EOF.  Bytes complete the lines that
\* ScanLines finds from the line in the buffer on.  A read of no byte is
\* io.EOF for the reader: ReadLine hands the bytes left in the buffer out
\* as a line, without an error, and the loop comes back to read fd once
\* more; with an empty buffer ReadLine returns io.EOF.
ReadLineAfter(data) ==
    IF data = <<>>
    THEN IF consumed < Len(input)
         THEN [lines |-> Append(linesRead,
                                SubSeq(input, consumed + 1, Len(input))),
               consumed |-> Len(input), eof |-> FALSE]
         ELSE [lines |-> linesRead, consumed |-> consumed, eof |-> TRUE]
    ELSE CHOOSE r \in
             {[lines |-> s.lines,
               consumed |-> Len(input) + Len(data) - Len(s.rest),
               eof |-> FALSE] :
                 s \in {ScanLines(input \o data, consumed + 1, linesRead)}} :
             TRUE

\* The calls of ReadLine up to the one that returned line n, the line on
\* which the loop returns its error (lines 237 and 250): the lines after it
\* stay in the buffer.
ReadLineUpTo(data, n) ==
    IF data = <<>>
    THEN ReadLineAfter(data)
    ELSE CHOOSE r \in
             {[lines |-> s.lines,
               consumed |-> Len(input) + Len(data) - Len(s.rest),
               eof |-> FALSE] :
                 s \in {ScanLinesUpTo(input \o data, consumed + 1,
                                      linesRead, n)}} : TRUE

\* ProcessorRead if parseTodoFile dropped the error of a line and returned
\* the nil tree without it
ProcessorReadDropError ==
    /\ ~halted
    /\ ppc = "read"
    /\ readable
    /\ \E data \in {ReadAt(FdText, Len(input), BufferRoom)} :
       \E s \in {ReadLineAfter(data)} :
       \E r \in {parseTodoLoop(s.lines, 0, <<>>)} :
           /\ input' = input \o data
           /\ IF r.err # NoError
              THEN \E u \in {ReadLineUpTo(data, r.err.line)} :
                       /\ consumed' = u.consumed
                       /\ linesRead' = u.lines
              ELSE /\ consumed' = s.consumed
                   /\ linesRead' = s.lines
           /\ IF r.err # NoError \/ s.eof
              THEN /\ todos' = r.todos
                   /\ ppc' = "calc"
                   /\ detached' = <<>>
              ELSE UNCHANGED <<ppc, todos, detached>>
    /\ UNCHANGED <<fileVars, detVars, sum, total, out, fdOpen, written,
                   progressValue, fatalErr, mainVars, halted, pending,
                   prevOut, unread>>

\* lines 220-269: the reader fills its buffer with one read of fd, into the
\* room its buffer has left, and the loop goes through the lines ReadLine
\* hands out of the buffer, until ReadLine has to read fd again.  Once
\* ReadLine returns io.EOF the loop ends and the tree is returned.  An error
\* of the read is returned to progress; so is the error of a line, and
\* ReadLine has then been called up to that line only.
ProcessorRead ==
    /\ ~halted
    /\ ppc = "read"
    /\ IF ~readable
       THEN /\ ppc' = "fatal"
            /\ fatalErr' = Error("ReadFailure", 0)
            /\ detached' = <<>>
            /\ UNCHANGED <<readerVars, todos>>
       ELSE \E data \in {ReadAt(FdText, Len(input), BufferRoom)} :
            \E s \in {ReadLineAfter(data)} :
            \E r \in {parseTodoLoop(s.lines, 0, <<>>)} :
                /\ input' = input \o data
                /\ IF r.err # NoError
                   THEN \E u \in {ReadLineUpTo(data, r.err.line)} :
                            /\ consumed' = u.consumed
                            /\ linesRead' = u.lines
                            /\ ppc' = "fatal"
                            /\ fatalErr' = r.err
                            /\ detached' = <<>>
                            /\ UNCHANGED todos
                   ELSE /\ consumed' = s.consumed
                        /\ linesRead' = s.lines
                        /\ IF s.eof
                           THEN /\ todos' = r.todos
                                /\ ppc' = "calc"
                                /\ detached' = <<>>
                                /\ UNCHANGED fatalErr
                           ELSE UNCHANGED <<ppc, todos, detached, fatalErr>>
    /\ UNCHANGED <<fileVars, detVars, sum, total, out, fdOpen, written,
                   progressValue, mainVars, halted, pending, prevOut, unread>>

\* line 91: log.Fatal(err) prints the error of parseTodoFile
ProcessorLog ==
    /\ ~halted
    /\ ppc = "fatal"
    /\ ppc' = "logged"
    /\ UNCHANGED <<fileVars, detVars, readerVars, detached, todos, sum, total,
                   out, fdOpen, written, progressValue, fatalErr, mainVars,
                   halted, pending, prevOut, unread>>

\* line 91: os.Exit in log.Fatal ends the process
ProcessorExit ==
    /\ ~halted
    /\ ppc = "logged"
    /\ ppc' = "exited"
    /\ halted' = TRUE
    /\ UNCHANGED <<fileVars, detVars, readerVars, detached, todos, sum, total,
                   out, fdOpen, written, progressValue, fatalErr, mainVars,
                   pending, prevOut, unread>>

\* lines 94-103: the counts, the percentage and its comparison with
\* progressValue
ProcessorCalc ==
    /\ ~halted
    /\ ppc = "calc"
    /\ \E r \in {calculate(todos, 1, 0, 0)} :
       \E o \in {Percentage(r.sum, r.total)} :
           /\ todos' = r.todos
           /\ sum' = r.sum
           /\ total' = r.total
           /\ out' = o
           /\ IF FloatNotEqual(progressValue, o)
              THEN /\ progressValue' = o
                   /\ ppc' = "open"
              ELSE /\ UNCHANGED progressValue
                   /\ ppc' = "return"
    /\ UNCHANGED <<fileVars, detVars, readerVars, detached, fdOpen, written,
                   fatalErr, mainVars, halted, pending, prevOut, unread>>

\* line 104: os.OpenFile with O_WRONLY|O_TRUNC truncates the file; its
\* error, for a path that names nothing or a directory, is dropped and fd
\* is then nil
ProcessorOpen ==
    /\ ~halted
    /\ ppc = "open"
    /\ IF exists /\ readable
       THEN /\ file' = <<>>
            /\ modTime' = NewModTime
            /\ fdOpen' = TRUE
            /\ unread' = TRUE
       ELSE /\ fdOpen' = FALSE
            /\ UNCHANGED <<file, modTime, unread>>
    /\ ppc' = "write"
    /\ written' = 0
    /\ UNCHANGED <<exists, readable, edits, detVars, readerVars, detached,
                   todos,
                   sum, total, out, progressValue, fatalErr, mainVars,
                   halted, pending, prevOut>>

\* lines 105-106: one write of PrintTodos, at the offset the writes before
\* it have left fd at; the write after the last one is none, and progress
\* goes on to its return, where fd is closed.  When the file was removed
\* after the open, fd is still a descriptor, of the file without a name:
\* each write is made on that file and changes nothing the path names.  A
\* write on the nil fd is no system call: it fails, as the close does, and
\* progress goes on to its return.
ProcessorWrite ==
    /\ ~halted
    /\ ppc = "write"
    /\ \E ws \in {PrintTodosFrom(todos, 1)} :
       \E off \in {Len(Concat(ws, written))} :
           IF fdOpen /\ written < Len(ws)
           THEN /\ file' = WriteAt(file, off, ws[written + 1])
                /\ modTime' = NewModTime
                /\ unread' = TRUE
                /\ written' = written + 1
                /\ UNCHANGED <<ppc, fdOpen, detached>>
           ELSE IF detached # <<>> /\ written < Len(ws)
           THEN /\ detached' = <<WriteAt(detached[1], off, ws[written + 1])>>
                /\ written' = written + 1
                /\ UNCHANGED <<ppc, fdOpen, file, modTime, unread>>
           ELSE /\ fdOpen' = FALSE
                /\ detached' = <<>>
                /\ ppc' = "return"
                /\ written' = 0
                /\ UNCHANGED <<file, modTime, unread>>
    /\ UNCHANGED <<exists, readable, edits, detVars, readerVars, todos,
                   sum, total, out, progressValue, fatalErr, mainVars,
                   halted, pending, prevOut>>

\* line 109 and line 29: progress returns out, which is printed, and the
\* processor waits for the next event
ProcessorReturn ==
    /\ ~halted
    /\ ppc = "return"
    /\ ppc' = "recv"
    /\ prevOut' = <<out>>
    /\ input' = <<>>
    /\ consumed' = 0
    /\ linesRead' = <<>>
    /\ todos' = <<>>
    /\ sum' = 0
    /\ total' = 0
    /\ out' = <<0, 1>>
    /\ UNCHANGED <<fileVars, detVars, detached, fdOpen, written,
                   progressValue, fatalErr, mainVars, halted, pending,
                   unread>>

(***************************************************************************)
(* Specifications.                                                         *)
(***************************************************************************)
Detector == DetectorStat \/ DetectorUpdate \/ DetectorTick

Processor ==
    ProcessorParse \/ ProcessorRead \/ ProcessorLog \/ ProcessorExit
        \/ ProcessorCalc \/ ProcessorOpen \/ ProcessorWrite
        \/ ProcessorReturn

Next ==
    \/ \E t \in EditTexts : ExternalEdit(t)
    \/ ExternalRemove
    \/ ExternalCreate
    \/ DetectorStat
    \/ Publish
    \/ DetectorUpdate
    \/ DetectorTick
    \/ PublishError
    \/ MainLog
    \/ MainExit
    \/ ProcessorParse
    \/ ProcessorRead
    \/ ProcessorLog
    \/ ProcessorExit
    \/ ProcessorCalc
    \/ ProcessorOpen
    \/ ProcessorWrite
    \/ ProcessorReturn

Spec == Init /\ [][Next]_vars

\* The Go scheduler runs every goroutine that can run, and a send on an
\* unbuffered channel completes once the receiver waits: every step of the
\* program is weakly fair.  The environment owes nothing.
Fairness ==
    /\ WF_vars(Detector)
    /\ WF_vars(Processor \/ Publish)
    /\ WF_vars(PublishError \/ MainLog \/ MainExit)

FairSpec == Spec /\ Fairness

\* One call of progress on every text of at most MaxLines lines, on the
\* texts whose last line has no NL, and on the texts with a long line: the
\* state just after the first event was received.
ParseInit ==
    /\ file \in TextsOf(MaxLines) \cup UnterminatedTexts \cup LongTexts
    /\ exists = TRUE
    /\ readable = TRUE
    /\ modTime = 1
    /\ edits = 0
    /\ dpc = "update"
    /\ observed = 1
    /\ lastModTime = ZeroTime
    /\ ppc = "parse"
    /\ input = <<>>
    /\ consumed = 0
    /\ linesRead = <<>>
    /\ detached = <<>>
    /\ todos = <<>>
    /\ sum = 0
    /\ total = 0
    /\ out = <<0, 1>>
    /\ fdOpen = FALSE
    /\ written = 0
    /\ progressValue = <<0, 1>>
    /\ mpc = "recv"
    /\ halted = FALSE
    /\ fatalErr = NoError
    /\ pending = 0
    /\ prevOut = <<>>
    /\ unread = TRUE

ParseNext ==
    \/ ProcessorParse
    \/ ProcessorRead
    \/ ProcessorLog
    \/ ProcessorExit
    \/ ProcessorCalc
    \/ ProcessorOpen
    \/ ProcessorWrite
    \/ ProcessorReturn

ParseSpec == ParseInit /\ [][ParseNext]_vars

(***************************************************************************)
(* Properties.                                                             *)
(***************************************************************************)
\* the processor has decided to rewrite the file, or is rewriting it
Rewriting == ppc \in {"open", "write"}

\* C1: when a call of progress computes the same percentage as the call
\* before it, the call does not open, truncate or write the file, for a
\* checklist of any number of entries.
C1_NoRewriteOnSamePercentage ==
    (Rewriting /\ prevOut # <<>>) => out # prevOut[1]

\* the detector has nothing to publish and the processor waits
Quiescent ==
    /\ ppc = "recv"
    /\ dpc \in {"stat", "sleep"}
    /\ exists
    /\ lastModTime = modTime

\* C2: once the external modifications have stopped, and unless the process
\* ends on a fatal error, the system reaches a state from which the
\* detector publishes no event and the processor never rewrites the file.
C2_EventuallyQuiescent == <>[](halted \/ Quiescent)

\* C3: an event is handed over with no drop, no duplicate and at most one
\* in flight: the publishes started exceed the events received by at most
\* one, and by one exactly while the detector waits in its send; during
\* that wait the detector makes no stat; the send ends only in the step in
\* which the processor receives, and the processor receives only in the
\* step in which a send ends.
C3_Handoff ==
    /\ [](pending \in {0, 1} /\ (pending = 1 <=> dpc = "send"))
    /\ [][/\ dpc = "send" => observed' = observed
          /\ (dpc = "send" /\ dpc' # "send")
                 => (ppc = "recv" /\ ppc' = "parse" /\ dpc' = "update")
          /\ (ppc = "recv" /\ ppc' # "recv")
                 => (dpc = "send" /\ dpc' = "update" /\ ppc' = "parse")]_vars

\* a second publish waits while the processor writes the file
C3_Witness ==
    /\ dpc = "send"
    /\ ppc = "write"
    /\ pending = 1
    /\ prevOut # <<>>

\* C4: under fair scheduling and unless the process ends on a fatal error,
\* a modified file is opened and read again by the processor (a change
\* that falls between two reads counts as not read), every call of progress
\* returns, and when the file stops changing the remembered time ends
\* equal to the file's modification time.
C4_NoModificationLost ==
    /\ unread ~> (halted \/ ~unread)
    /\ (ppc # "recv") ~> (halted \/ ppc = "recv")
    /\ \A t \in 1..4 : <>[](modTime = t) => <>[](halted \/ lastModTime = t)

\* after an external edit the processor has read the file, has returned,
\* and the detector remembers the file's time
C4_Witness ==
    /\ ~halted
    /\ edits > 0
    /\ ~unread
    /\ ppc = "recv"
    /\ dpc = "sleep"
    /\ lastModTime = modTime

\* C5: the first call of progress after start always decides to rewrite the
\* file and records the percentage it computed, whatever that percentage
\* is.
C5_FirstEventRewrites ==
    [][(ppc = "calc" /\ ppc' # "calc" /\ prevOut = <<>>)
           => (ppc' = "open" /\ progressValue' = out')]_vars

(***************************************************************************)
(* The tree, as the claims speak of it.                                    *)
(***************************************************************************)
HasSub(t) == t.sub # <<>>

\* the entries of a tree, top-level entries and sub-entries, that satisfy P
TopsWhere(tree, P(_)) == {i \in DOMAIN tree : P(tree[i])}

NumTop(tree) == Len(tree)
NumSub(tree) == Cardinality(TopsWhere(tree, HasSub))

OwnDoneTop(t) == t.IsDone
OwnDoneSub(t) == HasSub(t) /\ t.sub[1].IsDone
InheritedDoneSub(t) == HasSub(t) /\ ~t.sub[1].IsDone /\ t.IsDone

\* the processor ends its calculation in this step
CalcStep == ppc = "calc" /\ ppc' # "calc"

\* before and after a calculation: the same entries with the same content,
\* no top-level entry changes, no done entry becomes undone, the sub of an
\* undone parent is left alone and the sub of a done parent is done
Propagated(before, after) ==
    /\ Len(after) = Len(before)
    /\ \A i \in DOMAIN before :
        /\ after[i].IsDone = before[i].IsDone
        /\ after[i].Content = before[i].Content
        /\ after[i].IsParent = before[i].IsParent
        /\ HasSub(after[i]) = HasSub(before[i])
        /\ HasSub(before[i]) =>
            /\ after[i].sub[1].Content = before[i].sub[1].Content
            /\ before[i].sub[1].IsDone => after[i].sub[1].IsDone
            /\ before[i].IsDone => after[i].sub[1].IsDone
            /\ ~before[i].IsDone =>
                   after[i].sub[1].IsDone = before[i].sub[1].IsDone

\* line i of a text written by PrintTodos is an undone sub-entry
UndoneSubLine(lines, i) ==
    /\ Len(lines[i]) >= 7
    /\ SubSeq(lines[i], 1, 7) = <<SP, SP>> \o TodoStatusString(Undone)

DoneTopLine(lines, i) ==
    /\ Len(lines[i]) >= 5
    /\ SubSeq(lines[i], 1, 5) = TodoStatusString(Done)

\* no undone sub-entry is written under a done top-level entry
NoUndoneUnderDone(text) ==
    \E lines \in {ReadLines(text)} :
        \A i \in 2..Len(lines) :
            UndoneSubLine(lines, i) => ~DoneTopLine(lines, i - 1)

\* C6: a calculation counts the sub of a done top-level entry as done and
\* forces it done in the tree, changes no top-level entry and turns no done
\* entry undone; the text a cycle writes has no undone sub-entry under a
\* done top-level entry.
C6_RestDonePersisted ==
    /\ [][CalcStep =>
            /\ Propagated(todos, todos')
            /\ sum' = Cardinality(TopsWhere(todos', OwnDoneTop))
                          + Cardinality(TopsWhere(todos', OwnDoneSub))]_vars
    /\ [](ppc = "write" => NoUndoneUnderDone(PrintTodos(todos)))

\* the processor is about to rewrite the file with a sub-entry done that
\* the file has as undone
C6_Witness ==
    /\ ppc = "open"
    /\ exists
    /\ \E r \in {parseTodoFile(file)} :
        /\ r.err = NoError
        /\ Len(r.todos) = Len(todos)
        /\ \E i \in DOMAIN todos :
            /\ todos[i].IsDone
            /\ HasSub(todos[i]) /\ HasSub(r.todos[i])
            /\ todos[i].sub[1].IsDone
            /\ ~r.todos[i].sub[1].IsDone

\* the tree of the example: a done entry with a done sub, then an undone
\* entry without sub
ExampleTree(tree) ==
    /\ Len(tree) = 2
    /\ tree[1].IsDone /\ HasSub(tree[1]) /\ tree[1].sub[1].IsDone
    /\ ~tree[2].IsDone /\ ~HasSub(tree[2])

\* C7: total is the number of top-level entries plus the number of
\* sub-entries; done is the number of entries that are done themselves plus
\* the number of undone sub-entries of a done parent, each top-level entry
\* counting for itself; the example tree gives done = 2 and total = 3.
C7_Counts ==
    [][CalcStep =>
        /\ total' = NumTop(todos) + NumSub(todos)
        /\ sum' = Cardinality(TopsWhere(todos, OwnDoneTop))
                      + Cardinality(TopsWhere(todos, OwnDoneSub))
                      + Cardinality(TopsWhere(todos, InheritedDoneSub))
        /\ ExampleTree(todos) => (sum' = 2 /\ total' = 3)]_vars

\* the example tree has been counted
C7_Witness ==
    /\ ppc = "open"
    /\ ExampleTree(todos)
    /\ sum = 2
    /\ total = 3

(***************************************************************************)
(* The grammar of a line, as the claims state it.                          *)
(***************************************************************************)
\* the number of leading spaces of a line
Indentation(line) ==
    CHOOSE k \in 0..Len(line) :
        /\ \A j \in 1..k : line[j] = SP
        /\ k < Len(line) => line[k + 1] # SP

AfterIndentation(line) == SubSeq(line, Indentation(line) + 1, Len(line))

\* the text after the leading spaces begins with one of the two markers
BeginsWithMarker(line) ==
    /\ Len(AfterIndentation(line)) >= 5
    /\ SubSeq(AfterIndentation(line), 1, 5)
           \in {TodoStatusString(Done), TodoStatusString(Undone)}

\* the line begins with a marker that at least one character follows
WithContentLine(line) ==
    /\ BeginsWithMarker(line)
    /\ Len(AfterIndentation(line)) >= 6

\* the entry the grammar gives for a line that begins with a marker
EntryOf(line) ==
    Todo(SubSeq(AfterIndentation(line), 1, 5) = TodoStatusString(Done),
         SubSeq(AfterIndentation(line), 6, Len(AfterIndentation(line))))

\* the tree the grammar gives for lines that are blank or begin with a
\* marker, the first of these being a top-level entry
RECURSIVE TreeOf(_, _, _)
TreeOf(lines, n, tree) ==
    IF n > Len(lines) THEN tree
    ELSE IF lines[n] = <<>> THEN TreeOf(lines, n + 1, tree)
    ELSE IF Indentation(lines[n]) = 0
    THEN TreeOf(lines, n + 1, Append(tree, EntryOf(lines[n])))
    ELSE TreeOf(lines, n + 1,
                [tree EXCEPT ![Len(tree)] =
                    [@ EXCEPT !.IsParent = TRUE,
                              !.sub = <<EntryOf(lines[n])>>]])

NonBlank(lines) == {n \in DOMAIN lines : lines[n] # <<>>}

\* the lines of a text, of any length: each ends with NL, or CR NL, or with
\* the text
RECURSIVE TextLinesFrom(_, _)
TextLinesFrom(text, i) ==
    IF i > Len(text) THEN <<>>
    ELSE CHOOSE ls \in
        {IF k = 0 THEN <<SubSeq(text, i, Len(text))>>
         ELSE <<SubSeq(text, i,
                       IF k > i /\ text[k - 1] = CR THEN k - 2 ELSE k - 1)>>
                  \o TextLinesFrom(text, k + 1) :
            k \in {FirstNL(text, i, Len(text))}} : TRUE

TextLines(text) == TextLinesFrom(text, 1)

\* the first element of a non-empty set of line numbers
First(S) == CHOOSE n \in S : \A m \in S : n <= m

\* the lines that do not begin with a marker
BadLines(lines) == {n \in NonBlank(lines) : ~BeginsWithMarker(lines[n])}

\* the first non-blank line is an indented line that begins with a marker
OrphanFirst(lines) ==
    /\ NonBlank(lines) # {}
    /\ BeginsWithMarker(lines[First(NonBlank(lines))])
    /\ Indentation(lines[First(NonBlank(lines))]) > 0

\* parseTodoFile has returned an error to progress
ParseFailed == ppc \in {"fatal", "logged", "exited"}

\* parseTodoFile has returned in the first call of progress: the file is
\* still the text it read
Parsed == prevOut = <<>> /\ (ParseFailed \/ ppc = "calc")

\* C8: a text whose non-blank lines all begin, after their leading spaces,
\* with a marker, whatever follows the marker and also when nothing
\* follows it, and whose first entry is not indented, is parsed without
\* error into the tree of its lines: done from the marker, content the rest
\* of the line, an entry per line without indentation and a sub for an
\* indented one.
C8_ParserAcceptsGrammar ==
    Parsed =>
        \E lines \in {TextLines(file)} :
            (BadLines(lines) = {} /\ ~OrphanFirst(lines))
                => (~ParseFailed /\ todos = TreeOf(lines, 1, <<>>))

\* C9: when a text has a non-blank line that does not begin, after its
\* leading spaces, with a marker, and no orphan sub-entry before it, the
\* parse fails with MalformedLine, returns no tree and reports the 1-based
\* number of the first such line.
C9_MalformedLineNumber ==
    Parsed =>
        \E lines \in {ReadLines(file)} :
            (BadLines(lines) # {} /\ ~OrphanFirst(lines))
                => /\ ParseFailed
                   /\ todos = <<>>
                   /\ fatalErr = Error("MalformedLine", First(BadLines(lines)))

\* C10: the parse fails with OrphanSubEntry exactly when the first
\* non-blank line is an indented line that begins with a marker, and the
\* error then cites the 1-based number of that line.
C10_OrphanSubEntry ==
    Parsed =>
        \E lines \in {ReadLines(file)} :
            /\ fatalErr.kind = "OrphanSubEntry" <=> OrphanFirst(lines)
            /\ OrphanFirst(lines)
                   => fatalErr.line = First(NonBlank(lines))

(***************************************************************************)
(* The shape of a tree.                                                    *)
(***************************************************************************)
\* the depth-2 invariants: a top-level entry is a parent exactly when it
\* has a sub, and a sub is no parent and has no sub
DepthTwo(tree) ==
    \A i \in DOMAIN tree :
        /\ tree[i].IsParent <=> HasSub(tree[i])
        /\ Len(tree[i].sub) <= 1
        /\ HasSub(tree[i]) =>
            /\ ~tree[i].sub[1].IsParent
            /\ tree[i].sub[1].sub = <<>>

\* every non-blank line is a marker, after its leading spaces, followed by
\* at least one character
WithContent(lines) == \A n \in NonBlank(lines) : WithContentLine(lines[n])

\* the lines of the top-level entries
TopLines(lines) == {n \in NonBlank(lines) : Indentation(lines[n]) = 0}

\* the indented lines that follow the top-level line n, up to the next
\* top-level line
SubLinesAfter(lines, n) ==
    {m \in NonBlank(lines) :
        /\ m > n
        /\ Indentation(lines[m]) > 0
        /\ \A k \in TopLines(lines) : k <= n \/ k > m}

\* the last element of a non-empty set of line numbers
Last(S) == CHOOSE n \in S : \A m \in S : m <= n

\* the position in the tree of the entry of the top-level line n
Rank(lines, n) == Cardinality({k \in TopLines(lines) : k <= n})

\* the sub of every top-level entry is the entry of the last indented line
\* that follows its line, and there is none when no indented line follows
LastSubWins(lines, tree) ==
    /\ Len(tree) = Cardinality(TopLines(lines))
    /\ \A n \in TopLines(lines) :
        IF SubLinesAfter(lines, n) = {}
        THEN ~HasSub(tree[Rank(lines, n)])
        ELSE tree[Rank(lines, n)].sub
                 = <<EntryOf(lines[Last(SubLinesAfter(lines, n))])>>

\* the text of the example: an undone entry, an undone indented line, a
\* done indented line, each with a content
ExampleLines(lines) ==
    /\ Len(lines) = 3
    /\ NonBlank(lines) = {1, 2, 3}
    /\ WithContent(lines)
    /\ Indentation(lines[1]) = 0
    /\ Indentation(lines[2]) > 0
    /\ Indentation(lines[3]) > 0
    /\ ~EntryOf(lines[1]).IsDone
    /\ ~EntryOf(lines[2]).IsDone
    /\ EntryOf(lines[3]).IsDone

\* C11: every tree of the parser, before and after the calculation,
\* satisfies the depth-2 invariants; a text whose non-blank lines all begin
\* with a marker and whose first entry is not indented is parsed without
\* error, also when several indented lines follow one top-level entry, and
\* the sub of that entry is then the last of them; the text of the example
\* gives one undone entry whose sub is the done entry of its third line.
C11_DepthTwoLastSubWins ==
    /\ DepthTwo(todos)
    /\ Parsed =>
        \E lines \in {ReadLines(file)} :
            /\ (BadLines(lines) = {} /\ ~OrphanFirst(lines))
                   => (~ParseFailed /\ LastSubWins(lines, todos))
            /\ ExampleLines(lines) =>
                /\ Len(todos) = 1
                /\ ~todos[1].IsDone
                /\ todos[1].IsParent
                /\ todos[1].sub = <<EntryOf(lines[3])>>
                /\ todos[1].sub[1].IsDone


(***************************************************************************)
(* The canonical layout, as the claims state it.                           *)
(***************************************************************************)
Marker(done) ==
    IF done THEN TodoStatusString(Done) ELSE TodoStatusString(Undone)

\* a top-level entry on a line of its own, its sub on the next line after
\* exactly two spaces, then one blank line
CanonicalBlock(t) ==
    Marker(t.IsDone) \o t.Content \o <<NL>>
        \o (IF HasSub(t)
            THEN <<SP, SP>> \o Marker(t.sub[1].IsDone) \o t.sub[1].Content
                     \o <<NL>>
            ELSE <<>>)
        \o <<NL>>

RECURSIVE CanonicalFrom(_, _)
CanonicalFrom(tree, i) ==
    IF i > Len(tree) THEN <<>>
    ELSE CanonicalBlock(tree[i]) \o CanonicalFrom(tree, i + 1)

\* two trees have the same top-level entries in the same order, with the
\* same done and content, the same sub structure and the same subs
SameTree(a, b) ==
    /\ Len(a) = Len(b)
    /\ \A i \in DOMAIN a :
        /\ a[i].IsDone = b[i].IsDone
        /\ a[i].Content = b[i].Content
        /\ a[i].IsParent = b[i].IsParent
        /\ HasSub(a[i]) = HasSub(b[i])
        /\ HasSub(a[i]) =>
            /\ a[i].sub[1].IsDone = b[i].sub[1].IsDone
            /\ a[i].sub[1].Content = b[i].sub[1].Content

\* C12: for every tree the parser produces, the text PrintTodos writes for
\* it has each sub-entry on its own line after exactly two spaces and one
\* blank line after the block of each top-level entry, and parsing that
\* text succeeds and gives the same tree: the same top-level entries in the
\* same order, the same sub structure, the same done and content.
C12_RoundTrip ==
    (Parsed /\ ~ParseFailed) =>
        \E w \in {PrintTodos(todos)} :
            /\ w = CanonicalFrom(todos, 1)
            /\ \E r \in {parseTodoFile(w)} :
                /\ r.err = NoError
                /\ SameTree(r.todos, todos)


\* a percentage of the model is the fraction done / total: it lies between
\* 0 and 100 when 0 <= done <= total and total is not 0
InPercentRange(p) ==
    /\ p # NaN
    /\ p[2] > 0
    /\ 0 <= p[1] * 100
    /\ p[1] * 100 <= 100 * p[2]

\* C13: for a checklist of at least one entry the calculation gives
\* total >= 1 and 0 <= done <= total, and the percentage done / total * 100
\* lies between 0 and 100.
C13_PercentageBounds ==
    [][(CalcStep /\ todos # <<>>) =>
          /\ total' >= 1
          /\ 0 <= sum'
          /\ sum' <= total'
          /\ out' = Percentage(sum', total')
          /\ InPercentRange(out')]_vars

\* a checklist of which a part is done has been counted
C13_Witness ==
    /\ ppc = "open"
    /\ todos # <<>>
    /\ 1 <= sum
    /\ sum < total
    /\ out = Percentage(sum, total)
    /\ InPercentRange(out)


(***************************************************************************)
(* Fatal errors.                                                           *)
(***************************************************************************)
\* main has received the error of a stat
ErrorReceived == mpc # "recv"

\* a step of the processor
ProcessorStep ==
    <<ppc, input, consumed, written>>' # <<ppc, input, consumed, written>>

\* C14: a stat that fails makes the detector publish the error: it starts
\* no publish of an event and leaves the remembered time as it is, until
\* the error is received; main, having received the error, ends the
\* process; an error is received once; and once the error has been
\* received the processor receives no event and does not write the file.
C14_StatFailureFatal ==
    /\ [][(dpc = "stat" /\ ~exists /\ dpc' # dpc)
             => /\ dpc' = "sendErr"
                /\ pending' = pending
                /\ lastModTime' = lastModTime]_vars
    /\ [][dpc = "sendErr"
             => /\ pending' = pending
                /\ lastModTime' = lastModTime
                /\ dpc' # dpc => (mpc = "recv" /\ mpc' = "fatal")]_vars
    /\ [][mpc' # mpc
             => \/ mpc = "recv" /\ mpc' = "fatal" /\ dpc = "sendErr"
                \/ mpc = "fatal" /\ mpc' = "logged"
                \/ mpc = "logged" /\ mpc' = "exited" /\ halted']_vars
    /\ ErrorReceived ~> halted
    /\ [][(ErrorReceived /\ ProcessorStep)
             => /\ ppc # "recv"
                /\ file' = file
                /\ modTime' = modTime]_vars


\* parseTodoFile returns an error to progress in this step
ParseFails == ppc \in {"parse", "read"} /\ ppc' = "fatal"

\* no line of lines fails: every non-blank line begins with a marker that
\* a character follows, and the first of them is not indented
AllAccepted(lines) == WithContent(lines) /\ ~OrphanFirst(lines)

\* err is the error of the last line of lines, and no line before it fails:
\* a line that is not a marker with a character after it is malformed; an
\* indented line that is one, with no entry before it, is an orphan
FailsAtLast(lines, err) ==
    /\ lines # <<>>
    /\ err.line = Len(lines)
    /\ \E last \in {lines[Len(lines)]} :
       \E front \in {SubSeq(lines, 1, Len(lines) - 1)} :
           /\ last # <<>>
           /\ AllAccepted(front)
           /\ err.kind = "MalformedLine" <=> ~WithContentLine(last)
           /\ err.kind = "OrphanSubEntry"
                  <=> /\ WithContentLine(last)
                      /\ Indentation(last) > 0
                      /\ NonBlank(front) = {}

\* progress is at its call of log.Fatal
Failing == ppc \in {"fatal", "logged"}

\* C15: the processor goes on to the calculation only with lines of which
\* none fails, and an error of a line is that of the last line read; a failure to open, to read or to parse
\* gives progress that error and changes neither the file nor
\* progressValue; progress then does nothing but print the error and end
\* the process, which it does; and once the process has ended nothing
\* changes any more, so no later event is processed.
C15_ParseFailureFatal ==
    /\ [](ppc \in {"calc", "open", "write", "return"}
            => AllAccepted(linesRead))
    /\ [][ParseFails =>
            /\ fatalErr' # NoError
            /\ fatalErr'.kind \in {"MalformedLine", "OrphanSubEntry"}
                   => FailsAtLast(linesRead', fatalErr')
            /\ fatalErr'.kind = "OpenFailure" <=> ppc = "parse"
            /\ fatalErr'.kind = "ReadFailure" => ~readable
            /\ file' = file
            /\ modTime' = modTime
            /\ exists' = exists
            /\ progressValue' = progressValue]_vars
    /\ [][(Failing /\ ProcessorStep) =>
            /\ ppc = "fatal" => ppc' = "logged"
            /\ ppc = "logged" => (ppc' = "exited" /\ halted')
            /\ fatalErr' = fatalErr
            /\ file' = file
            /\ modTime' = modTime
            /\ progressValue' = progressValue]_vars
    /\ Failing ~> halted
    /\ [][~halted]_vars

\* a later cycle has ended the process on a malformed line, with the
\* percentage of the cycle before still remembered
C15_Witness ==
    /\ halted
    /\ fatalErr.kind = "MalformedLine"
    /\ ppc = "exited"
    /\ prevOut # <<>>
    /\ progressValue = <<2, 3>>
    /\ exists
    /\ parseTodoFile(file).err = fatalErr


\* the processor ends its call of os.OpenFile in this step
OpenStep == ppc = "open" /\ ppc' # ppc

\* C16: when the file cannot be opened for the rewrite, progress gets an
\* error and ends the process: the call of progress does not go on to
\* return the percentage, and the processor receives no further event.
C16_OpenFailureFatal ==
    [][(OpenStep /\ ~exists)
          => (ppc' = "fatal" /\ fatalErr' # NoError)]_vars


(***************************************************************************)
(* The order of the rewrite and of the detector's update.                  *)
(***************************************************************************)
\* the processor truncates or writes the file in this step
WriteStep == ProcessorStep /\ (file' # file \/ modTime' # modTime)

\* The detector is at its update only between the end of a send and the
\* assignment of line 76, and it cannot end another send before the
\* processor is back at its receive: while a cycle runs, dpc = "update"
\* says that the update for the event of this cycle is still to come.
UpdatePending == dpc = "update"

\* C17: the processor writes the file in a cycle only after the detector
\* has updated lastModTime for the event that started the cycle.
C17_WriteAfterUpdate == [][WriteStep => ~UpdatePending]_vars

\* C17, amended: the processor writes the file only in a cycle, and a cycle
\* starts only in the step that ends the detector's send; the rewrite may
\* precede the detector's update for that event, and the update then sets
\* lastModTime to the time observed before the rewrite, which is not the
\* time the rewrite gave the file.
C17_WriteAfterHandoff ==
    /\ [][WriteStep => ppc \in {"open", "write"}]_vars
    /\ [][(ppc = "recv" /\ ProcessorStep)
             => (dpc = "send" /\ dpc' = "update")]_vars
    /\ [][(UpdatePending /\ dpc' # dpc /\ modTime # observed)
             => (lastModTime' = observed /\ lastModTime' # modTime)]_vars

\* the processor has rewritten the file of the first event and the
\* detector has not yet made its update for that event
C17_Witness ==
    /\ UpdatePending
    /\ ppc = "return"
    /\ prevOut = <<>>
    /\ edits = 0
    /\ exists
    /\ modTime # observed
    /\ lastModTime = ZeroTime


(***************************************************************************)
(* The detector.                                                           *)
(***************************************************************************)
\* the detector ends a stat in this step
StatStep == dpc = "stat" /\ dpc' # dpc

\* C18: the remembered time starts as the zero time; a stat that succeeds
\* starts the publish of an event exactly when the time it observes
\* differs from the remembered time, so the first stat that succeeds
\* always does; the observed time changes in a stat only; the remembered
\* time changes only in the step that follows the end of the publish, and
\* becomes the time observed by the stat that decided the publish.
C18_PublishIffChanged ==
    /\ lastModTime = ZeroTime
    /\ [][(StatStep /\ exists) =>
            /\ observed' = modTime
            /\ dpc' = "send" <=> modTime # lastModTime
            /\ dpc' = "send" => pending' = pending + 1
            /\ dpc' # "send" => (dpc' = "sleep" /\ pending' = pending)
            /\ lastModTime = ZeroTime => dpc' = "send"]_vars
    /\ [][observed' # observed => (StatStep /\ exists)]_vars
    /\ [][(dpc = "update" /\ dpc' # dpc) => lastModTime' = observed]_vars
    /\ [][lastModTime' # lastModTime => (dpc = "update" /\ dpc' = "sleep")]_vars

\* the file was edited between the stat and the end of the publish, and
\* the detector remembers the time of the stat
C18_Witness ==
    /\ dpc = "sleep"
    /\ edits > 0
    /\ exists
    /\ lastModTime = observed
    /\ lastModTime # ZeroTime
    /\ modTime # observed


(***************************************************************************)
(* The rewrite and the external writer.                                    *)
(***************************************************************************)
\* the file holds the entries of the tree: parsed and counted, its text
\* gives the tree
HoldsTree(text, tree) ==
    \E r \in {parseTodoFile(text)} :
        /\ r.err = NoError
        /\ calculate(r.todos, 1, 0, 0).todos = tree

\* C19: the content a rewrite truncates is the content the processor
\* parsed in the same cycle: when the processor opens the file for the
\* rewrite, the file still holds the entries of the tree the processor is
\* about to write, so no edit made after the read is overwritten unread.
C19_NoEditDestroyed ==
    [][(OpenStep /\ exists) => HoldsTree(file, todos)]_vars


\* the processor makes the last write of the tree in this step
PrintStep ==
    /\ ppc = "write"
    /\ fdOpen
    /\ written' = Len(PrintTodosFrom(todos, 1))
    /\ written' # written

\* processing the text again gives the counts and the percentage p, the
\* comparison with the remembered percentage p finds no difference, and
\* the tree is written as the same text
FixedPoint(text, done, all, p) ==
    \E r \in {parseTodoFile(text)} :
        /\ r.err = NoError
        /\ \E c \in {calculate(r.todos, 1, 0, 0)} :
            /\ c.sum = done
            /\ c.total = all
            /\ Percentage(c.sum, c.total) = p
            /\ ~FloatNotEqual(p, Percentage(c.sum, c.total))
            /\ PrintTodos(c.todos) = text

\* C20: for a checklist of at least one entry, the text a rewrite leaves
\* in the file is a fixed point of processing: parsed and counted again it
\* gives the same done, total and percentage as the cycle that wrote it,
\* its tree is written as the same text, byte for byte, and the next cycle
\* does not rewrite it.
C20_RewriteFixedPoint ==
    [][(PrintStep /\ total >= 1)
          => FixedPoint(file', sum, total, progressValue)]_vars


====
